---- MODULE Spec2Model ----
(***************************************************************************)
(* Model of web_api.py: the in-memory task registry `tasks`, the HTTP      *)
(* handlers that run on the event loop (one at a time, they never await),  *)
(* and run_pocketflow, the background job that FastAPI runs in a worker    *)
(* thread after the submission's response is sent.                         *)
(*                                                                         *)
(* Python dict objects are modelled with a heap: `tasks` maps a task id to *)
(* a reference, `heap` maps a reference to the dict's fields.  Line 130    *)
(* mutates the dict in place; lines 136, 148, 156 and 163 bind the key to  *)
(* a new dict.                                                             *)
(***************************************************************************)
EXTENDS Integers, Sequences, FiniteSets, TLC

VARIABLES tasks, heap, runners, handler, response

vars == <<tasks, heap, runners, handler, response>>

(* ------------------------------ bounds --------------------------------- *)

\* Number of submissions explored.
MaxTasks == 2

\* How far the longest standard output exceeds the retained tail.
MaxExtra == 1

(* ------------------------- program constants --------------------------- *)

\* result.stdout[-500:]
TailLen == 500

(* ----------------------------- values ---------------------------------- *)

\* Python's None.
None == [none |-> TRUE]

\* A Python str held in an Optional slot.
PyStr(s) == [str |-> s]

\* The ids uuid4 can produce in this model.
Ids == 1 .. MaxTasks

\* A path parameter that is no generated id.
NoSuchId == 0

\* The request bodies explored (fields the runner echoes).
Requests == { [repo_url |-> "https://github.com/a/b", language |-> l] : l \in {"english"} }

RECURSIVE Rep(_, _)
\* s repeated n times.
Rep(s, n) == IF n = 0 THEN ""
             ELSE IF n % 2 = 1 THEN Rep(s, n - 1) \o s
             ELSE LET h == Rep(s, n \div 2) IN h \o h

\* A text of n characters whose i-th character is the last digit of i - 1.
Text(n) == Rep("0123456789", n \div 10) \o SubSeq("0123456789", 1, n % 10)

\* Standard outputs the delegated process may write.
Stdouts == { Text(n) : n \in {0, 7, TailLen, TailLen + MaxExtra} }

\* Standard error texts the delegated process may write.
Stderrs == {"", "boom"}

\* Exit codes of the delegated process.
ReturnCodes == {0, 1}

\* subprocess.CompletedProcess values returned by subprocess.run: every
\* standard output with a silent exit 0, every standard error with a silent
\* exit 1, and both exit codes with both streams written.
CompletedProcesses ==
    { p \in [returncode : ReturnCodes, stdout : Stdouts, stderr : Stderrs] :
        \/ p.returncode = 0 /\ p.stderr = ""
        \/ p.returncode # 0 /\ p.stdout = ""
        \/ p.stdout = Text(7) /\ p.stderr = "boom" }

\* str(e) of the exceptions os.makedirs / subprocess.run may raise.
Faults == {"[Errno 13] Permission denied"}

\* Mutant of LastChars: s[:n], the head instead of the tail.
FirstChars(s, n) == IF Len(s) <= n THEN s ELSE SubSeq(s, 1, n)

\* Python's s[-n:] .
LastChars(s, n) == IF Len(s) <= n THEN s ELSE SubSeq(s, Len(s) - n + 1, Len(s))

\* f"./output/{task_id}"
OutputDir(task_id) == "./output/" \o ToString(task_id)

(* --------------------------- registry ---------------------------------- *)

\* The dict stored at submission.
NewTask == [status |-> "processing", result |-> None, error |-> None]

\* The dict stored on exit code 0.
CompletedTask(task_id, request, result) ==
    [status |-> "completed",
     result |-> [output_path |-> OutputDir(task_id),
                 message     |-> "Tutorial generated successfully",
                 stdout      |-> IF result.stdout # "" THEN LastChars(result.stdout, TailLen) ELSE "",
                 repo_url    |-> request.repo_url,
                 language    |-> request.language],
     error  |-> None]

\* Mutant of FailedTask: the standard error text is left out of the message.
FailedTaskNoStderr(result) ==
    [status |-> "failed", result |-> None,
     error  |-> PyStr("Command failed with return code " \o ToString(result.returncode))]

\* The dict stored on a non-zero exit code.
FailedTask(result) ==
    [status |-> "failed", result |-> None,
     error  |-> PyStr("Command failed with return code " \o ToString(result.returncode)
                      \o ": " \o result.stderr)]

\* Mutant of TimedOutTask: the timeout branch forgets the message.
TimedOutTaskNoError == [status |-> "failed", result |-> None, error |-> None]

\* The dict stored on subprocess.TimeoutExpired.
TimedOutTask == [status |-> "failed", result |-> None,
                 error  |-> PyStr("Task timed out after 5 minutes")]

\* Mutant of FaultedTask: the message does not carry str(e).
FaultedTaskNoDescription(e) == [status |-> "failed", result |-> None,
                                error  |-> PyStr("Unexpected error")]

\* The dict stored on any other exception.
FaultedTask(e) == [status |-> "failed", result |-> None,
                   error  |-> PyStr("Unexpected error: " \o e)]

\* The record currently stored for a task id.
Rec(task_id) == heap[tasks[task_id]]

\* tasks[task_id] = d, d a new dict allocated at reference ref.
Bind(task_id, ref, d) ==
    /\ tasks' = (task_id :> ref) @@ tasks
    /\ heap'  = (ref :> d) @@ heap

\* if task_id in tasks: tasks[task_id] = d
BindIfPresent(task_id, ref, d) ==
    IF task_id \in DOMAIN tasks THEN Bind(task_id, ref, d)
                                ELSE UNCHANGED <<tasks, heap>>

\* tasks[task_id] = d, as written on the two exit-code branches.
BindExit(task_id, ref, d) == Bind(task_id, ref, d)

\* Mutant of MarkRunning: the running write is left out.
MarkRunningSkipped(task_id) == UNCHANGED <<tasks, heap>>

\* Mutant of MarkRunning: the running write goes to every stored dict.
MarkRunningAll(task_id) ==
    /\ heap' = [ref \in DOMAIN heap |-> [heap[ref] EXCEPT !.status = "running"]]
    /\ UNCHANGED tasks

\* if task_id in tasks: tasks[task_id]["status"] = "running"
MarkRunning(task_id) ==
    IF task_id \in DOMAIN tasks
    THEN /\ heap' = [heap EXCEPT ![tasks[task_id]].status = "running"]
         /\ UNCHANGED tasks
    ELSE UNCHANGED <<tasks, heap>>

(* ---------------------------- handlers --------------------------------- *)

Idle == [pc |-> "idle"]
NoResponse == [kind |-> "none"]

\* The ids of the runners already scheduled.
Scheduled == { runners[n].task_id : n \in 1 .. Len(runners) }

\* The identifiers no submission or runner has used yet.
Fresh == Ids \ (DOMAIN tasks \cup Scheduled)

\* Mutant of NewTaskId: an identifier that may have been issued before.
NewTaskIdReused == Ids

\* str(uuid.uuid4()): a fresh identifier.  Ids are opaque tokens (compared for
\* equality, embedded in the output path), so the program is symmetric under
\* renaming them and one representative of the fresh ids is explored.
NewTaskId == { id \in Fresh : \A other \in Fresh : id <= other }

\* Mutant of AddTask: the runner is scheduled twice.
AddTaskTwice(task_id, request) ==
    LET r == [pc |-> "start", task_id |-> task_id, request |-> request,
              outcome |-> "none", result |-> None, e |-> None]
    IN runners' = Append(Append(runners, r), r)

\* background_tasks.add_task(run_pocketflow, task_id, request)
AddTask(task_id, request) ==
    runners' = Append(runners, [pc |-> "start", task_id |-> task_id, request |-> request,
                                outcome |-> "none", result |-> None, e |-> None])

\* Mutant of generate_tutorial: the handler admits a submission only when every
\* earlier job has returned (it waits for the jobs instead of scheduling).
generate_tutorial_blocking(request) ==
    /\ handler = Idle
    /\ Len(runners) < MaxTasks
    /\ \A n \in 1 .. Len(runners) : runners[n].pc = "returned"
    /\ \E task_id \in NewTaskId :
          /\ Bind(task_id, <<Len(runners) + 1, 0>>, NewTask)
          /\ AddTask(task_id, request)
          /\ response' = [kind |-> "TutorialResponse", task_id |-> task_id,
                          status |-> "processing",
                          message |-> "Tutorial generation started. Use /status/{task_id} to check progress."]
    /\ UNCHANGED handler

\* POST /generate-tutorial
generate_tutorial(request) ==
    /\ handler = Idle
    /\ Len(runners) < MaxTasks
    /\ \E task_id \in NewTaskId :
          /\ Bind(task_id, <<Len(runners) + 1, 0>>, NewTask)
          /\ AddTask(task_id, request)
          /\ response' = [kind |-> "TutorialResponse", task_id |-> task_id,
                          status |-> "processing",
                          message |-> "Tutorial generation started. Use /status/{task_id} to check progress."]
    /\ UNCHANGED handler


\* StatusResponse(task_id=..., status=..., result=..., error=...)
StatusResponse(task_id, status, result, error) ==
    [kind |-> "StatusResponse", task_id |-> task_id, status |-> status,
     result |-> result, error |-> error]

\* Mutant of NotFoundResponse: no membership test, the lookup raises.
NotFoundRaises(task_id) == [kind |-> "KeyError", task_id |-> task_id]

\* The response to a poll of an id that is not in the registry (lines 74-79).
NotFoundResponse(task_id) ==
    StatusResponse(task_id, "not_found", None, PyStr("Task not found"))

\* Mutant of PollBegin: the registry is a defaultdict, the membership test of an
\* unknown id is replaced by a lookup that inserts an empty record.
PollBeginInserts(task_id) ==
    /\ handler = Idle
    /\ IF task_id \notin DOMAIN tasks
       THEN /\ response' = NotFoundResponse(task_id)
            /\ Bind(task_id, <<task_id, 2>>, NewTask)
            /\ UNCHANGED <<handler, runners>>
       ELSE /\ handler' = [pc |-> "lookup", task_id |-> task_id]
            /\ response' = NoResponse
            /\ UNCHANGED <<tasks, heap, runners>>

\* GET /status/{task_id}, line 73: the membership test.
PollBegin(task_id) ==
    /\ handler = Idle
    /\ IF task_id \notin DOMAIN tasks
       THEN /\ response' = NotFoundResponse(task_id)
            /\ UNCHANGED handler
       ELSE /\ handler' = [pc |-> "lookup", task_id |-> task_id]
            /\ response' = NoResponse
    /\ UNCHANGED <<tasks, heap, runners>>

\* Line 81: task_data = tasks[task_id]; a missing key raises KeyError.
PollLookup ==
    /\ handler.pc = "lookup"
    /\ IF handler.task_id \in DOMAIN tasks
       THEN /\ handler' = [pc |-> "status", task_id |-> handler.task_id,
                           task_data |-> tasks[handler.task_id]]
            /\ UNCHANGED response
       ELSE /\ handler' = Idle
            /\ response' = [kind |-> "KeyError", task_id |-> handler.task_id]
    /\ UNCHANGED <<tasks, heap, runners>>

\* Line 84: task_data.get("status", "unknown")
PollStatus ==
    /\ handler.pc = "status"
    /\ handler' = [pc |-> "result", task_id |-> handler.task_id,
                   task_data |-> handler.task_data,
                   status |-> heap[handler.task_data].status]
    /\ UNCHANGED <<tasks, heap, runners, response>>

\* Mutant of PollResult: the result is read through the registry again
\* (tasks[task_id].get("result")) instead of through task_data.
PollResultReread ==
    /\ handler.pc = "result"
    /\ handler' = [pc |-> "error", task_id |-> handler.task_id,
                   task_data |-> handler.task_data,
                   status |-> handler.status,
                   result |-> Rec(handler.task_id).result]
    /\ UNCHANGED <<tasks, heap, runners, response>>

\* Line 85: task_data.get("result")
PollResult ==
    /\ handler.pc = "result"
    /\ handler' = [pc |-> "error", task_id |-> handler.task_id,
                   task_data |-> handler.task_data,
                   status |-> handler.status,
                   result |-> heap[handler.task_data].result]
    /\ UNCHANGED <<tasks, heap, runners, response>>

\* Mutant of PollError: the error is read through the registry again
\* (tasks[task_id].get("error")) instead of through task_data.
PollErrorReread ==
    /\ handler.pc = "error"
    /\ response' = StatusResponse(handler.task_id, handler.status, handler.result,
                                  Rec(handler.task_id).error)
    /\ handler' = Idle
    /\ UNCHANGED <<tasks, heap, runners>>

\* Lines 82-87: task_data.get("error"), then the response is returned.
PollError ==
    /\ handler.pc = "error"
    /\ response' = StatusResponse(handler.task_id, handler.status, handler.result,
                                  heap[handler.task_data].error)
    /\ handler' = Idle
    /\ UNCHANGED <<tasks, heap, runners>>

\* One step of get_status.
get_status ==
    \/ \E task_id \in Ids \cup {NoSuchId} : PollBegin(task_id)
    \/ PollLookup
    \/ PollStatus
    \/ PollResult
    \/ PollError

\* GET /: the service metadata (lines 36-47).
root ==
    /\ handler = Idle
    /\ response' = [kind |-> "Root", message |-> "PocketFlow Tutorial Generator API",
                    version |-> "1.0.0",
                    endpoints |-> [generate |-> "/generate-tutorial", status |-> "/status/{task_id}",
                                   health |-> "/health", docs |-> "/docs"]]
    /\ UNCHANGED <<tasks, heap, runners, handler>>

\* Mutant of ActiveTasks: running tasks are counted as active too.
ActiveTasksWithRunning ==
    Cardinality({ task_id \in DOMAIN tasks : Rec(task_id).status \in {"processing", "running"} })

\* len([t for t in tasks.values() if t.get("status") == "processing"])
ActiveTasks == Cardinality({ task_id \in DOMAIN tasks : Rec(task_id).status = "processing" })

\* GET /health (lines 49-55).
health_check ==
    /\ handler = Idle
    /\ response' = [kind |-> "Health", status |-> "healthy",
                    service |-> "PocketFlow Tutorial Generator",
                    active_tasks |-> ActiveTasks]
    /\ UNCHANGED <<tasks, heap, runners, handler>>

\* Mutant of TaskSummary: has_result is taken from the status being terminal.
TaskSummaryByStatus(task_id, task_data) ==
    [task_id |-> task_id, status |-> task_data.status,
     has_result |-> task_data.status \in {"completed", "failed"}]

\* One element of the list comprehension of lines 94-101.
TaskSummary(task_id, task_data) ==
    [task_id |-> task_id, status |-> task_data.status,
     has_result |-> task_data.result # None]

RECURSIVE Items(_)
\* tasks.items() restricted to the keys in S, as a sequence.  A dict iterates
\* in insertion order; generate_tutorial inserts the ids in increasing order.
Items(S) ==
    IF S = {} THEN << >>
    ELSE LET first == CHOOSE id \in S : \A other \in S : id <= other
         IN <<first>> \o Items(S \ {first})

\* GET /tasks (lines 89-102).  No key is inserted while the comprehension
\* runs (insertions happen on the event loop, which is busy here), and each
\* element reads one dict object whose result never changes in place.
list_tasks ==
    /\ handler = Idle
    /\ LET keys == Items(DOMAIN tasks) IN
         response' = [kind |-> "TaskList", total_tasks |-> Cardinality(DOMAIN tasks),
                      tasks |-> [i \in 1 .. Len(keys) |-> TaskSummary(keys[i], Rec(keys[i]))]]
    /\ UNCHANGED <<tasks, heap, runners, handler>>

(* ----------------------------- runner ---------------------------------- *)

(* run_pocketflow runs in a worker thread.  Its steps that touch only its  *)
(* own locals (making the directory, building the command, waiting for the *)
(* process) commute with every step of the other threads, so each action   *)
(* below is one such local stretch together with the registry write that   *)
(* ends it.                                                                *)

\* The runner's frame after one more step: its position and what line 133 gave.
Step(n, pc, outcome, result, e) ==
    runners' = [runners EXCEPT ![n].pc = pc, ![n].outcome = outcome,
                               ![n].result = result, ![n].e = e]

\* Mutant of OnFault: no except Exception clause, the fault leaves the runner.
OnFaultUncaught(n, e) ==
    /\ UNCHANGED <<tasks, heap>>
    /\ Step(n, "raised", "fault", None, PyStr(e))

\* Lines 161-167: except Exception as e.
OnFault(n, e) ==
    /\ BindIfPresent(runners[n].task_id, <<n, 1>>, FaultedTask(e))
    /\ Step(n, "returned", "fault", None, PyStr(e))

\* Mutant of OnTimeout: except Exception comes first and catches the timeout.
OnTimeoutAsFault(n) ==
    /\ BindIfPresent(runners[n].task_id, <<n, 1>>,
                     FaultedTask("Command timed out after 300 seconds"))
    /\ Step(n, "returned", "timeout", None, None)

\* Mutant of OnTimeout: the timed-out task is dropped from the registry.
OnTimeoutRemoves(n) ==
    /\ tasks' = [id \in DOMAIN tasks \ {runners[n].task_id} |-> tasks[id]]
    /\ UNCHANGED heap
    /\ Step(n, "returned", "timeout", None, None)

\* Lines 154-160: except subprocess.TimeoutExpired.
OnTimeout(n) ==
    /\ BindIfPresent(runners[n].task_id, <<n, 1>>, TimedOutTask)
    /\ Step(n, "returned", "timeout", None, None)

\* Lines 135-152: the process exited with result.returncode.
OnExit(n, result) ==
    /\ LET r == runners[n] IN
         IF result.returncode = 0
         THEN BindExit(r.task_id, <<n, 1>>, CompletedTask(r.task_id, r.request, result))
         ELSE BindExit(r.task_id, <<n, 1>>, FailedTask(result))
    /\ Step(n, "returned", "exit", result, None)

\* Lines 106-126 raise (os.makedirs fails): control goes to line 161.
RunnerPrepareFault(n) ==
    /\ runners[n].pc = "start"
    /\ \E e \in Faults : OnFault(n, e)
    /\ UNCHANGED <<handler, response>>

\* Lines 106-130: directory made, command built, the running write.
RunnerMarkRunning(n) ==
    /\ runners[n].pc = "start"
    /\ MarkRunning(runners[n].task_id)
    /\ Step(n, "marked", "none", None, None)
    /\ UNCHANGED <<handler, response>>

\* Lines 133-152: subprocess.run returns a CompletedProcess.
RunnerExit(n) ==
    /\ runners[n].pc = "marked"
    /\ \E result \in CompletedProcesses : OnExit(n, result)
    /\ UNCHANGED <<handler, response>>

\* Lines 133, 154-160: subprocess.run raises TimeoutExpired after 300 seconds.
RunnerTimeout(n) ==
    /\ runners[n].pc = "marked"
    /\ OnTimeout(n)
    /\ UNCHANGED <<handler, response>>

\* Lines 133, 161-167: subprocess.run raises another exception.
RunnerFault(n) ==
    /\ runners[n].pc = "marked"
    /\ \E e \in Faults : OnFault(n, e)
    /\ UNCHANGED <<handler, response>>

\* One step of the n-th scheduled run_pocketflow.
run_pocketflow(n) ==
    \/ RunnerPrepareFault(n)
    \/ RunnerMarkRunning(n)
    \/ RunnerExit(n)
    \/ RunnerTimeout(n)
    \/ RunnerFault(n)

(* -------------------------- specification ------------------------------ *)

Init ==
    /\ tasks = << >>
    /\ heap = << >>
    /\ runners = << >>
    /\ handler = Idle
    /\ response = NoResponse

Submit == \E request \in Requests : generate_tutorial(request)

Runner == \E n \in 1 .. Len(runners) : run_pocketflow(n)

Next == Submit \/ get_status \/ root \/ health_check \/ list_tasks \/ Runner

Spec == Init /\ [][Next]_vars

\* The thread pool runs every scheduled runner, and subprocess.run returns or
\* raises within the timeout: each runner that can step eventually does.
FairSpec == Spec /\ \A n \in 1 .. MaxTasks : WF_vars(n <= Len(runners) /\ run_pocketflow(n))

\* run_pocketflow called for an id that generate_tutorial never registered.
InitDirect ==
    /\ tasks = << >>
    /\ heap = << >>
    /\ \E task_id \in Ids, request \in Requests :
          runners = << [pc |-> "start", task_id |-> task_id, request |-> request,
                        outcome |-> "none", result |-> None, e |-> None] >>
    /\ handler = Idle
    /\ response = NoResponse

SpecDirect == InitDirect /\ [][Next]_vars

(* ------------------------------ claims --------------------------------- *)

Statuses == {"processing", "running", "completed", "failed"}

Terminal(task_id) == task_id \in DOMAIN tasks /\ Rec(task_id).status \in {"completed", "failed"}

\* Runner n took a step.
Stepped(n) == n <= Len(runners) /\ runners'[n] # runners[n]

\* C1: every stored task that is completed has a result and no error, every
\* failed one has an error and no result, and every processing or running one
\* has neither.
C1_ResultXorError ==
    \A id \in DOMAIN tasks :
       LET t == Rec(id) IN
         /\ t.status = "completed" => t.result # None /\ t.error = None
         /\ t.status = "failed" => t.result = None /\ t.error # None
         /\ t.status \in {"processing", "running"} => t.result = None /\ t.error = None

C1_Witness ==
    /\ \E id \in DOMAIN tasks : Rec(id).status = "completed"
    /\ \E id \in DOMAIN tasks : Rec(id).status = "failed"

\* C2: a stored task whose status is completed or failed keeps its status,
\* result and error in every later step.
C2_TerminalImmutable ==
    [][\A id \in DOMAIN tasks :
          Terminal(id) => id \in DOMAIN tasks' /\ heap'[tasks'[id]] = Rec(id)]_vars

C2_Witness ==
    \E id \in DOMAIN tasks :
       /\ Terminal(id)
       /\ response.kind = "StatusResponse" /\ response.task_id = id
       /\ response.status = Rec(id).status
       /\ \E n \in 1 .. Len(runners) : runners[n].task_id # id /\ runners[n].pc = "returned"

\* The status changes a stored task makes in one step.
StatusChanges ==
    { <<Rec(id).status, heap'[tasks'[id]].status>> : id \in DOMAIN tasks \cap DOMAIN tasks' }
       \ { <<st, st>> : st \in Statuses }

\* C3 as stated: the only status changes are processing -> running,
\* running -> completed and running -> failed.
C3_OnlyViaRunning ==
    [][StatusChanges \subseteq { <<"processing", "running">>, <<"running", "completed">>,
                                 <<"running", "failed">> }]_vars

\* C3 amended: the status changes are those three and processing -> failed,
\* which happens only when the runner faults before its running write and
\* stores the fault's description.
C3_Transitions ==
    [][/\ StatusChanges \subseteq { <<"processing", "running">>, <<"running", "completed">>,
                                    <<"running", "failed">>, <<"processing", "failed">> }
       /\ \A id \in DOMAIN tasks \cap DOMAIN tasks' :
             Rec(id).status = "processing" /\ heap'[tasks'[id]].status = "failed" =>
                \E n \in 1 .. Len(runners) :
                   /\ runners[n].task_id = id /\ runners[n].pc = "start"
                   /\ runners'[n].outcome = "fault"
                   /\ \E e \in Faults : heap'[tasks'[id]] = [status |-> "failed", result |-> None,
                                                             error |-> PyStr("Unexpected error: " \o e)]]_vars

C3_Witness ==
    /\ \E n \in 1 .. Len(runners) :
          /\ runners[n].outcome = "fault" /\ Terminal(runners[n].task_id)
          /\ heap[<<n, 0>>].status = "processing"
    /\ \E n \in 1 .. Len(runners) :
          /\ runners[n].outcome = "exit" /\ Rec(runners[n].task_id).status = "completed"
          /\ heap[<<n, 0>>].status = "running"

\* C4: under fair scheduling every submitted task eventually is completed or
\* failed; no runner ends with an exception leaving it, and none ends with its
\* task not terminal.
C4_RunnerResolves ==
    /\ \A id \in Ids : (id \in DOMAIN tasks) ~> Terminal(id)
    /\ [](\A n \in 1 .. Len(runners) :
             /\ runners[n].pc # "raised"
             /\ runners[n].pc = "returned" => Terminal(runners[n].task_id))

C4_Witness ==
    /\ Len(runners) = MaxTasks
    /\ \A n \in 1 .. Len(runners) : runners[n].pc = "returned" /\ Terminal(runners[n].task_id)
    /\ \E n \in 1 .. Len(runners) : runners[n].outcome = "fault"
    /\ \E n \in 1 .. Len(runners) : runners[n].outcome = "timeout"

\* C5: submissions get pairwise distinct task ids, and a step of the runner of
\* one task leaves the record of every other task as it was.
C5_NoCrossTaskWrite ==
    /\ [](\A m, n \in 1 .. Len(runners) : m # n => runners[m].task_id # runners[n].task_id)
    /\ [][\A n \in 1 .. Len(runners) :
             Stepped(n) =>
               \A other \in DOMAIN tasks \ {runners[n].task_id} :
                  other \in DOMAIN tasks' /\ heap'[tasks'[other]] = Rec(other)]_vars

C5_Witness ==
    \E m, n \in 1 .. Len(runners) :
       /\ m # n
       /\ runners[m].pc = "returned" /\ Rec(runners[m].task_id).status = "completed"
       /\ runners[n].pc = "returned" /\ Rec(runners[n].task_id).status = "failed"

\* The runners scheduled for a task id.
RunnersOf(task_id) == { n \in 1 .. Len(runners) : runners[n].task_id = task_id }

\* C6: every task id of the registry has exactly one runner ever scheduled for
\* it, so no two runners that can still write share a task id.
C6_OneRunnerPerId ==
    /\ \A id \in DOMAIN tasks : Cardinality(RunnersOf(id)) = 1
    /\ \A id \in Ids : Cardinality({ n \in RunnersOf(id) : runners[n].pc \in {"start", "marked"} }) <= 1

C6_Witness ==
    /\ Len(runners) = MaxTasks
    /\ \A n \in 1 .. Len(runners) : runners[n].pc \in {"start", "marked"}

\* C7: a runner step taken while its task id is not in the registry leaves the
\* registry unchanged, inserts no record and does not fail.
C7_AbsentIdNoOp ==
    [][\A n \in 1 .. Len(runners) :
          Stepped(n) /\ runners[n].task_id \notin DOMAIN tasks =>
             /\ tasks' = tasks /\ heap' = heap
             /\ runners'[n].pc # "raised"]_vars

\* C8: a poll of an id that is not in the registry answers not_found and raises
\* nothing, and every stored status is processing, running, completed or failed.
C8_NotFound ==
    /\ \A id \in DOMAIN tasks : Rec(id).status \in Statuses
    /\ response.kind # "KeyError"
    /\ response.kind = "StatusResponse" /\ response.task_id \notin DOMAIN tasks =>
          response.status = "not_found"
    /\ handler # Idle => handler.task_id \in DOMAIN tasks

C8_Witness ==
    /\ response.kind = "StatusResponse" /\ response.status = "not_found"
    /\ response.task_id \notin DOMAIN tasks
    /\ DOMAIN tasks # {}

\* C9 as stated: a status response has an error only with status failed and a
\* result only with status completed.
C9_FieldsOnlyWhenTerminal ==
    response.kind = "StatusResponse" =>
       /\ response.error # None => response.status = "failed"
       /\ response.result # None => response.status = "completed"

\* C9 amended: a status response has an error only with status failed or
\* not_found (then the fixed text "Task not found"), and a result only with
\* status completed.
C9_ResponseFields ==
    response.kind = "StatusResponse" =>
       /\ response.error # None => response.status \in {"failed", "not_found"}
       /\ response.status = "not_found" => response.error = PyStr("Task not found")
       /\ response.result # None => response.status = "completed"

C9_Witness ==
    /\ response.kind = "StatusResponse" /\ response.status = "failed"
    /\ response.error # None
    /\ Rec(response.task_id).status = "failed"

\* C10: when a task's process exits with code 0 the task is stored completed,
\* result.output_path is the output directory of that task id, and
\* result.stdout is the last min(500, length) characters of the standard output.
C10_ExitZero ==
    \A n \in 1 .. Len(runners) :
       LET r == runners[n] IN
         r.pc = "returned" /\ r.outcome = "exit" /\ r.result.returncode = 0 =>
            LET t == Rec(r.task_id)
                out == r.result.stdout
                kept == t.result.stdout IN
              /\ t.status = "completed"
              /\ t.result.output_path = "./output/" \o ToString(r.task_id)
              /\ Len(kept) <= 500
              /\ Len(kept) = IF Len(out) < 500 THEN Len(out) ELSE 500
              /\ kept = SubSeq(out, Len(out) - Len(kept) + 1, Len(out))

C10_Witness ==
    \E n \in 1 .. Len(runners) :
       /\ runners[n].pc = "returned" /\ runners[n].outcome = "exit"
       /\ runners[n].result.returncode = 0 /\ Len(runners[n].result.stdout) > 500
       /\ Len(Rec(runners[n].task_id).result.stdout) = 500

\* Text sub occurs in text s.
Contains(s, sub) ==
    \E i \in 1 .. Len(s) - Len(sub) + 1 : SubSeq(s, i, i + Len(sub) - 1) = sub

\* C11: when a task's process exits with a code N other than 0 the task is
\* stored failed, without a result, and its error contains both N and the
\* standard error text of the process.
C11_ExitNonZero ==
    \A n \in 1 .. Len(runners) :
       LET r == runners[n] IN
         r.pc = "returned" /\ r.outcome = "exit" /\ r.result.returncode # 0 =>
            LET t == Rec(r.task_id) IN
              /\ t.status = "failed"
              /\ t.result = None
              /\ t.error # None
              /\ Contains(t.error.str, ToString(r.result.returncode))
              /\ Contains(t.error.str, r.result.stderr)

C11_Witness ==
    \E n \in 1 .. Len(runners) :
       /\ runners[n].pc = "returned" /\ runners[n].outcome = "exit"
       /\ runners[n].result.returncode # 0 /\ runners[n].result.stderr = "boom"
       /\ Rec(runners[n].task_id).status = "failed"

\* C12: when a task's process does not exit within the timeout the task is
\* stored failed with the fixed timeout message and no result, and no later
\* step writes anything else to that task.
C12_Timeout ==
    /\ [](\A n \in 1 .. Len(runners) :
             runners[n].pc = "returned" /\ runners[n].outcome = "timeout" =>
                Rec(runners[n].task_id) = [status |-> "failed", result |-> None,
                                           error |-> PyStr("Task timed out after 5 minutes")])
    /\ [][\A n \in 1 .. Len(runners) :
             runners[n].pc = "returned" /\ runners[n].outcome = "timeout" =>
                /\ runners'[n] = runners[n]
                /\ runners[n].task_id \in DOMAIN tasks'
                /\ heap'[tasks'[runners[n].task_id]] = Rec(runners[n].task_id)]_vars

C12_Witness ==
    \E n \in 1 .. Len(runners) :
       /\ runners[n].pc = "returned" /\ runners[n].outcome = "timeout"
       /\ response.kind = "StatusResponse" /\ response.task_id = runners[n].task_id
       /\ response.error = PyStr("Task timed out after 5 minutes")

\* C13: a fault other than a timeout, raised before or after the running
\* write, leaves the task stored failed, without a result, with an error that
\* carries the fault's description, and no exception leaves the runner.
C13_Fault ==
    \A n \in 1 .. Len(runners) :
       LET r == runners[n] IN
         /\ r.pc # "raised"
         /\ r.outcome = "fault" =>
               LET t == Rec(r.task_id) IN
                 /\ r.pc = "returned"
                 /\ t.status = "failed"
                 /\ t.result = None
                 /\ t.error # None
                 /\ Contains(t.error.str, r.e.str)

C13_Witness ==
    /\ \E n \in 1 .. Len(runners) :
          /\ runners[n].outcome = "fault" /\ heap[<<n, 0>>].status = "processing"
          /\ Rec(runners[n].task_id).status = "failed"
    /\ \E n \in 1 .. Len(runners) :
          /\ runners[n].outcome = "fault" /\ heap[<<n, 0>>].status = "running"
          /\ Rec(runners[n].task_id).status = "failed"

\* C14: a submission waits for no runner: whenever the event loop is free (and
\* the explored number of submissions is not exhausted) the submit step is
\* enabled, whatever the positions of the runners; it answers processing, and
\* the record of a task exists before its runner takes its first step.
C14_SubmitNeverWaits ==
    /\ handler = Idle /\ Len(runners) < MaxTasks => ENABLED Submit
    /\ response.kind = "TutorialResponse" =>
          response.status = "processing" /\ response.task_id \in DOMAIN tasks
    /\ \A n \in 1 .. Len(runners) :
          /\ runners[n].task_id \in DOMAIN tasks
          /\ <<n, 0>> \in DOMAIN heap
          /\ runners[n].pc = "start" => Rec(runners[n].task_id) = NewTask

C14_Witness ==
    /\ handler = Idle
    /\ Len(runners) = MaxTasks - 1
    /\ \A n \in 1 .. Len(runners) : runners[n].pc = "marked"
    /\ ENABLED Submit

\* C15: the task listing holds every stored task id exactly once and no other
\* id, total_tasks is the number of stored tasks, and an entry's has_result is
\* true exactly when that entry's status is completed.
C15_Listing ==
    [][response'.kind = "TaskList" /\ response' # response =>
          LET listing == response'.tasks IN
            /\ response'.total_tasks = Cardinality(DOMAIN tasks)
            /\ Len(listing) = Cardinality(DOMAIN tasks)
            /\ { listing[i].task_id : i \in 1 .. Len(listing) } = DOMAIN tasks
            /\ \A i, j \in 1 .. Len(listing) : listing[i].task_id = listing[j].task_id => i = j
            /\ \A i \in 1 .. Len(listing) :
                  /\ listing[i].status = Rec(listing[i].task_id).status
                  /\ listing[i].has_result <=> listing[i].status = "completed"]_vars

C15_Witness ==
    /\ response.kind = "TaskList" /\ response.total_tasks = MaxTasks
    /\ \E i \in 1 .. Len(response.tasks) : response.tasks[i].has_result
    /\ \E i \in 1 .. Len(response.tasks) :
          response.tasks[i].status = "failed" /\ ~response.tasks[i].has_result

\* C16: the active_tasks value the health endpoint returns is the number of
\* stored tasks whose status is processing; running, completed and failed
\* tasks are not counted.
C16_ActiveTasks ==
    [][response'.kind = "Health" /\ response' # response =>
          /\ response'.active_tasks =
                Cardinality(DOMAIN tasks) -
                Cardinality({ id \in DOMAIN tasks :
                                Rec(id).status \in {"running", "completed", "failed"} })
          /\ response'.status = "healthy"]_vars

C16_Witness ==
    /\ response.kind = "Health" /\ response.active_tasks = 1
    /\ \E id \in DOMAIN tasks : Rec(id).status = "running"
    /\ ActiveTasks = 1

\* C17: no step removes a task id from the registry, so a poll answers
\* not_found only for an id that is still absent: once a submission has
\* returned an id, no poll of it answers not_found.
C17_NeverRemoved ==
    /\ [][DOMAIN tasks \subseteq DOMAIN tasks']_vars
    /\ [](response.kind = "StatusResponse" /\ response.status = "not_found" =>
             response.task_id \notin DOMAIN tasks)
    /\ [][response'.kind = "StatusResponse" /\ response'.task_id \in DOMAIN tasks =>
             response'.status # "not_found"]_vars

C17_Witness ==
    /\ response.kind = "StatusResponse" /\ response.task_id \in DOMAIN tasks
    /\ response.status = "failed"
    /\ \A n \in 1 .. Len(runners) : runners[n].pc = "returned"
    /\ Cardinality(DOMAIN tasks) = MaxTasks

\* The (status, result, error) triples the record of a task id has held: each
\* dict object bound to the id, and the dict of the submission before its
\* running write.
Held(task_id) ==
    { heap[ref] : ref \in { r \in DOMAIN heap : runners[r[1]].task_id = task_id } }
       \cup { [status |-> "processing", result |-> None, error |-> None] }

\* C18: the response of a poll of a stored task, interleaved in any way with
\* the writes of the task's runner, is a (status, result, error) triple the
\* record held at one moment: never completed without a result, failed without
\* an error, or processing or running with a result or an error.
C18_NoTornResponse ==
    response.kind = "StatusResponse" /\ response.status # "not_found" =>
       /\ [status |-> response.status, result |-> response.result, error |-> response.error]
             \in Held(response.task_id)
       /\ response.status = "completed" => response.result # None
       /\ response.status = "failed" => response.error # None
       /\ response.status \in {"processing", "running"} =>
             response.result = None /\ response.error = None

C18_Witness ==
    /\ response.kind = "StatusResponse" /\ response.status = "running"
    /\ Rec(response.task_id).status = "completed"

\* C19: the read operations (service metadata, health, status poll, task
\* listing) leave the registry as it is: every step that is neither a
\* submission nor a runner step keeps every record.
C19_ReadsKeepRegistry ==
    [][runners' = runners => tasks' = tasks /\ heap' = heap]_vars

C19_Witness ==
    /\ response.kind = "StatusResponse" /\ response.status = "not_found"
    /\ response.task_id = NoSuchId
    /\ Cardinality(DOMAIN tasks) = MaxTasks
    /\ \E id \in DOMAIN tasks : Rec(id).status = "running"

====
